---- MODULE Spec2Model ----
(***************************************************************************)
(* Model of the Pure64 physical-memory allocator, src/src/map.c.           *)
(*                                                                         *)
(* uint64_t values.  Every address and size of map.c is a 64-bit unsigned  *)
(* integer.  A value v is represented here by its two's-complement         *)
(* residue: v itself when v < 2^63, and v - 2^64 otherwise, so that        *)
(* 0xffffffffffffffff is -1.  Addition, subtraction and multiplication of  *)
(* residues are the operations modulo 2^64 as long as no magnitude reaches *)
(* 2^63; all magnitudes of this model stay below 2^31.  Because 4096       *)
(* divides 2^64, v % 4096 is the same number for both representations.     *)
(* Unsigned comparison is ULt: a negative residue is a value of at least   *)
(* 2^63 and so is larger than every non-negative one.                      *)
(***************************************************************************)
EXTENDS Integers, Sequences, FiniteSets, TLC

NULL == 0

BOUNDARY == 4096

\* (void *) 0xffffffffffffffff, the tombstone address written by free
MAX_ADDR == -1

\* 0x60000, the end of the region used by Pure64 itself
BootLimit == 393216

\* sizeof(struct pure64_alloc): void *addr; uint64_t size; uint64_t reserved
SizeofAlloc == 24

\* sizeof(struct ahci_driver), the block pure64_map_init allocates
SizeofAhciDriver == 48

ULt(a, b) == IF (a >= 0) = (b >= 0) THEN a < b ELSE a >= 0

ULe(a, b) == a = b \/ ULt(a, b)

UGt(a, b) == ULt(b, a)

UGe(a, b) == ULe(b, a)

Rec(a, s, r) == [addr |-> a, size |-> s, reserved |-> r]

E820(a, s, u) == [addr |-> a, size |-> s, usable |-> u]

\* size rounded up to a multiple of BOUNDARY, modulo 2^64
RoundUp(size) ==
    IF (size % BOUNDARY) # 0 THEN size + (BOUNDARY - (size % BOUNDARY)) ELSE size

\* [a, a+n) and [b, b+m) share a byte (n, m >= 0, no wrap)
Intersects(a, n, b, m) == n > 0 /\ m > 0 /\ a < b + m /\ b < a + n

(***************************************************************************)
(* Bounds of the model.                                                    *)
(***************************************************************************)
MaxOps == 4

\* the firmware maps pure64_map_init may find at 0x6000
FirmwareMaps ==
    { << E820(393216, 16384, TRUE) >>,
      << E820(65536, 344064, TRUE) >>,
      << E820(0, 401408, TRUE), E820(655360, 65536, FALSE) >>,
      << E820(983040, 65536, FALSE), E820(1050624, 12288, TRUE) >>,
      << E820(393216, 4096, TRUE), E820(1048576, 8192, TRUE) >>,
      << E820(655360, 131072, FALSE) >>,
      << E820(65536, 327696, TRUE) >>,
      << E820(393216, 2048, TRUE) >> }

\* the sizes a client asks for
Sizes == {0, 1280, 8192, -1}

\* offset of the interior pointers a client may pass
InteriorOff == 8

VARIABLES
    pc,           \* "boot" before pure64_map_init, "run" after it
    e820,         \* the firmware map: sequence of entries
    alloc_table,  \* map->alloc_table, the address of the table (NULL = 0)
    alloc_count,  \* map->alloc_count
    table,        \* the records stored at alloc_table, slot i at table[i+1]
    issued,       \* the addresses handed out so far
    intact,       \* FALSE once a memcpy has written over the table's storage
    last,         \* the last call: operation, arguments, result, memcpy
    ops           \* the number of calls made since pure64_map_init

vars == <<pc, e820, alloc_table, alloc_count, table, issued, intact, last, ops>>

\* struct pure64_map, with the memory alloc_table points to
Map == [ptr |-> alloc_table, cnt |-> alloc_count, tab |-> table]

NoCopy == <<0, 0, 0>>

(***************************************************************************)
(* sort_alloc_table: bubble sort of the live slots by unsigned address.    *)
(***************************************************************************)
RECURSIVE BubblePass(_, _, _)
BubblePass(tab, cnt, i) ==
    IF (i < cnt) /\ ((i + 1) < cnt)
    THEN IF UGt(tab[i + 1].addr, tab[i + 2].addr)
         THEN BubblePass([tab EXCEPT ![i + 1] = tab[i + 2], ![i + 2] = tab[i + 1]],
                         cnt, i + 1)
         ELSE BubblePass(tab, cnt, i + 1)
    ELSE tab

RECURSIVE sort_alloc_table(_, _)
sort_alloc_table(tab, cnt) ==
    LET t == BubblePass(tab, cnt, 0)
    IN  IF t # tab THEN sort_alloc_table(t, cnt) ELSE tab

\* the number of times sort_alloc_table runs its for loop (bubbleSortLoop)
RECURSIVE SortPasses(_, _)
SortPasses(tab, cnt) ==
    LET t == BubblePass(tab, cnt, 0)
    IN  IF t # tab THEN 1 + SortPasses(t, cnt) ELSE 1

(***************************************************************************)
(* find_suitable_addr.  ScanAllocs is the for loop over the allocation     *)
(* table; it yields <<i, addr>> as the loop leaves them.                   *)
(***************************************************************************)
RECURSIVE ScanAllocs(_, _, _, _, _, _)
ScanAllocs(tab, cnt, i, addr, size, limit) ==
    IF i < cnt
    THEN LET addr3 == tab[i + 1].addr
             size3 == tab[i + 1].reserved
         IN  IF UGt(addr + size, addr3) /\ ULe(addr, addr3)
             THEN IF UGe((addr3 + size3) + size, limit)
                  THEN <<i, addr3 + size3>>
                  ELSE ScanAllocs(tab, cnt, i + 1, addr3 + size3, size, limit)
             ELSE ScanAllocs(tab, cnt, i + 1, addr, size, limit)
    ELSE <<i, addr>>

RECURSIVE FindFrom(_, _, _, _, _)
FindFrom(tab, cnt, map, e, size) ==
    IF e > Len(map)
    THEN NULL
    ELSE IF ~map[e].usable
         THEN FindFrom(tab, cnt, map, e + 1, size)
         ELSE IF ULt(map[e].size, size)
              THEN FindFrom(tab, cnt, map, e + 1, size)
              ELSE LET r == ScanAllocs(tab, cnt, 0, map[e].addr, size,
                                       map[e].addr + map[e].size)
                   IN  IF r[1] < cnt
                       THEN FindFrom(tab, cnt, map, e + 1, size)
                       ELSE r[2]

find_suitable_addr(m, map, size) == FindFrom(m.tab, m.cnt, map, 1, size)

(***************************************************************************)
(* find_alloc_entry: the slot (1-based) of the first live record with the  *)
(* address, 0 when there is none.                                          *)
(***************************************************************************)
RECURSIVE FindEntryFrom(_, _, _, _)
FindEntryFrom(tab, cnt, i, addr) ==
    IF i < cnt
    THEN IF tab[i + 1].addr = addr THEN i + 1
         ELSE FindEntryFrom(tab, cnt, i + 1, addr)
    ELSE 0

\* find_alloc_entry searching the retired slots too
find_alloc_entry_all_slots(m, addr) == FindEntryFrom(m.tab, Len(m.tab), 0, addr)

find_alloc_entry(m, addr) == FindEntryFrom(m.tab, m.cnt, 0, addr)

(***************************************************************************)
(* The result of a call: the value returned, the map after the call, the   *)
(* memcpy it made (<<dst, src, n>>), whether it relocated a record, the    *)
(* table as it stood when memcpy ran, and whether memcpy left the table's  *)
(* storage alone.  It also counts the calls of pure64_map_realloc and of    *)
(* pure64_map_malloc made (the outermost included) and the passes of       *)
(* sort_alloc_table.                                                       *)
(***************************************************************************)
Result(ret, m, cp, moved, copy, ok) ==
    [ret |-> ret, m |-> m, cp |-> cp, moved |-> moved, copy |-> copy, ok |-> ok,
     reallocs |-> 0, mallocs |-> 0, passes |-> 0]

Fail(m) == Result(NULL, m, NoCopy, FALSE, <<>>, TRUE)

(***************************************************************************)
(* pure64_map_realloc for a non-null address (lines 340-387).  The record  *)
(* is rewritten in the table at map->alloc_table, memcpy copies size bytes *)
(* from addr to addr2, and sort_alloc_table sorts the table at             *)
(* map->alloc_table.  copy is the table before the sort: it is what memcpy *)
(* read when addr is the table itself.                                     *)
(***************************************************************************)
\* realloc_entry writing the record before it has checked the new address
realloc_entry_early_write(m, map, addr, size) ==
    LET k == find_alloc_entry(m, addr)
    IN  IF k = 0
        THEN Fail(m)
        ELSE IF UGe(m.tab[k].reserved, size)
             THEN Result(addr, [m EXCEPT !.tab[k].size = size],
                         NoCopy, FALSE, <<>>, TRUE)
             ELSE LET reserved == RoundUp(size)
                      addr2 == find_suitable_addr(m, map, size)
                      tab1 == [m.tab EXCEPT ![k] = Rec(addr2, size, reserved)]
                  IN  IF addr2 = NULL
                      THEN Fail([m EXCEPT !.tab = tab1])
                      ELSE [Result(addr2,
                                   [m EXCEPT !.tab = sort_alloc_table(tab1, m.cnt)],
                                   <<addr2, addr, size>>, TRUE, tab1,
                                   ~Intersects(addr2, size,
                                               m.ptr, m.cnt * SizeofAlloc))
                              EXCEPT !.passes = SortPasses(tab1, m.cnt)]

realloc_entry(m, map, addr, size) ==
    LET k == find_alloc_entry(m, addr)
    IN  IF k = 0
        THEN Fail(m)
        ELSE IF UGe(m.tab[k].reserved, size)
             THEN Result(addr, [m EXCEPT !.tab[k].size = size],
                         NoCopy, FALSE, <<>>, TRUE)
             ELSE LET reserved == RoundUp(size)
                      addr2 == find_suitable_addr(m, map, size)
                      tab1 == [m.tab EXCEPT ![k] = Rec(addr2, size, reserved)]
                  IN  IF addr2 = NULL
                      THEN Fail(m)
                      ELSE [Result(addr2,
                                   [m EXCEPT !.tab = sort_alloc_table(tab1, m.cnt)],
                                   <<addr2, addr, size>>, TRUE, tab1,
                                   ~Intersects(addr2, size,
                                               m.ptr, m.cnt * SizeofAlloc))
                              EXCEPT !.passes = SortPasses(tab1, m.cnt)]

(***************************************************************************)
(* pure64_map_realloc, append_alloc and pure64_map_malloc call one another *)
(* (lines 43, 307 and 333).                                                *)
(***************************************************************************)
RECURSIVE pure64_map_malloc(_, _, _)

pure64_map_realloc(m, map, addr, size) ==
    [ (IF addr = NULL
       THEN pure64_map_malloc(m, map, size)
       ELSE realloc_entry(m, map, addr, size)) EXCEPT !.reallocs = @ + 1 ]

(***************************************************************************)
(* append_alloc.  ret is 0 or -1.  When the table's record was relocated,  *)
(* map->alloc_table becomes the destination of the memcpy, which holds the *)
(* first alloc_count + 1 slots of the table as they were before the sort.  *)
(* append_result is lines 44-52, r being what line 43 returned.            *)
(***************************************************************************)
append_result(m, alloc, r) ==
    LET grown == IF r.moved
                 THEN SubSeq(r.copy, 1, m.cnt) \o <<alloc>>
                 ELSE IF Len(r.m.tab) > m.cnt
                      THEN [r.m.tab EXCEPT ![m.cnt + 1] = alloc]
                      ELSE Append(r.m.tab, alloc)
    IN  IF r.ret = NULL
        THEN [r EXCEPT !.ret = -1]
        ELSE [r EXCEPT !.ret = 0,
                       !.m = [ptr |-> r.ret, cnt |-> m.cnt + 1, tab |-> grown]]

\* the second growth of append_alloc_regrow: r1 is what the first returned
regrow(m, map, r1) ==
    [r1 EXCEPT !.reallocs =
        @ + pure64_map_realloc(
                [r1.m EXCEPT !.ptr = IF r1.ret = NULL THEN m.ptr ELSE r1.ret],
                map,
                IF r1.ret = NULL THEN m.ptr ELSE r1.ret,
                (m.cnt + 1) * SizeofAlloc).reallocs]

\* append_alloc growing the table twice: the second pure64_map_realloc asks
\* for the size the first has just reserved
append_alloc_regrow(m, map, alloc) ==
    append_result(m, alloc,
        regrow(m, map,
               pure64_map_realloc(m, map, m.ptr, (m.cnt + 1) * SizeofAlloc)))

append_alloc(m, map, alloc) ==
    append_result(m, alloc,
        pure64_map_realloc(m, map, m.ptr, (m.cnt + 1) * SizeofAlloc))

\* lines 307-310 of pure64_map_malloc, r being what append_alloc returned
malloc_appended(addr, r) ==
    [r EXCEPT !.ret = IF r.ret # 0 THEN NULL ELSE addr, !.mallocs = @ + 1]

\* lines 303-310 of pure64_map_malloc, addr being the address line 303 found
malloc_placed(m, map, size, addr) ==
    IF addr = NULL
    THEN [Fail(m) EXCEPT !.mallocs = @ + 1]
    ELSE malloc_appended(addr, append_alloc(m, map, Rec(addr, size, RoundUp(size))))

pure64_map_malloc(m, map, size) ==
    IF m.ptr = NULL
    THEN [Fail(m) EXCEPT !.mallocs = @ + 1]
    ELSE malloc_placed(m, map, size, find_suitable_addr(m, map, RoundUp(size)))

\* pure64_map_free: the map after the call
pure64_map_free(m, addr) ==
    LET k == find_alloc_entry(m, addr)
    IN  IF addr = NULL \/ k = 0
        THEN m
        ELSE [m EXCEPT !.tab = sort_alloc_table([m.tab EXCEPT ![k].addr = MAX_ADDR],
                                                m.cnt),
                       !.cnt = m.cnt - 1]

\* the passes of the sort_alloc_table call of pure64_map_free (line 415)
free_sort_passes(m, addr) ==
    LET k == find_alloc_entry(m, addr)
    IN  IF addr = NULL \/ k = 0
        THEN 0
        ELSE SortPasses([m.tab EXCEPT ![k].addr = MAX_ADDR], m.cnt)

(***************************************************************************)
(* pure64_map_init.  InitScan is the while loop: it yields <<e, addr>>,    *)
(* the entry it stopped at (Len(map) + 1 at the end of the map) and the    *)
(* address chosen for the table.                                           *)
(***************************************************************************)
RECURSIVE InitScan(_, _)
InitScan(map, e) ==
    IF e > Len(map)
    THEN <<e, 0>>
    ELSE LET addr == map[e].addr
             size == map[e].size
             clip == IF ULt(addr, BootLimit)
                     THEN <<BootLimit, BootLimit - addr>>
                     ELSE <<addr, size>>
         IN  IF ~map[e].usable
             THEN InitScan(map, e + 1)
             ELSE IF ULt(addr + size, BootLimit)
                  THEN InitScan(map, e + 1)
                  ELSE IF ULt(clip[2], SizeofAlloc * 2)
                       THEN InitScan(map, e + 1)
                       ELSE <<e, clip[1]>>

\* InitTable with the self-reference sized for one record instead of two
InitTable_one_record(map) ==
    LET s == InitScan(map, 1)
    IN  IF s[1] > Len(map)
        THEN [ptr |-> NULL, cnt |-> 0, tab |-> <<>>]
        ELSE [ptr |-> s[2], cnt |-> 2,
              tab |-> << Rec(0, BootLimit, BootLimit),
                         Rec(s[2], SizeofAlloc, SizeofAlloc) >>]

\* the map as lines 256-276 leave it
InitTable(map) ==
    LET s == InitScan(map, 1)
    IN  IF s[1] > Len(map)
        THEN [ptr |-> NULL, cnt |-> 0, tab |-> <<>>]
        ELSE [ptr |-> s[2], cnt |-> 2,
              tab |-> << Rec(0, BootLimit, BootLimit),
                         Rec(s[2], SizeofAlloc * 2, SizeofAlloc * 2) >>]

\* found: addr was the base of a live record of m, the map before the call
Call(op, addr, size, r, m) ==
    [op |-> op, addr |-> addr, size |-> size, ret |-> r.ret,
     cp |-> r.cp, moved |-> r.moved,
     reallocs |-> r.reallocs, mallocs |-> r.mallocs, passes |-> r.passes,
     found |-> addr # NULL /\ find_alloc_entry(m, addr) # 0]

\* the addresses a client may pass to realloc and free
PtrArgs == {NULL, MAX_ADDR} \cup issued \cup {p + InteriorOff : p \in issued}

Install(r) ==
    /\ alloc_table' = r.m.ptr
    /\ alloc_count' = r.m.cnt
    /\ table' = r.m.tab
    /\ intact' = r.ok
    /\ issued' = IF r.ret = NULL THEN issued ELSE issued \cup {r.ret}

Init ==
    /\ pc = "boot"
    /\ e820 \in FirmwareMaps
    /\ alloc_table = NULL
    /\ alloc_count = 0
    /\ table = <<>>
    /\ issued = {}
    /\ intact = TRUE
    /\ last = Call("none", NULL, 0, Fail(0), [cnt |-> 0])
    /\ ops = 0

pure64_map_init ==
    /\ pc = "boot"
    /\ pc' = "run"
    /\ LET r == pure64_map_malloc(InitTable(e820), e820, SizeofAhciDriver)
       IN  /\ Install(r)
           /\ last' = Call("init", NULL, SizeofAhciDriver, r, [cnt |-> 0])
    /\ UNCHANGED <<e820, ops>>

CallMalloc ==
    /\ pc = "run" /\ intact /\ ops < MaxOps
    /\ \E size \in Sizes :
          LET r == pure64_map_malloc(Map, e820, size)
          IN  /\ Install(r)
              /\ last' = Call("malloc", NULL, size, r, Map)
    /\ ops' = ops + 1
    /\ UNCHANGED <<pc, e820>>

CallRealloc ==
    /\ pc = "run" /\ intact /\ ops < MaxOps
    /\ \E addr \in PtrArgs, size \in Sizes :
          /\ LET r == pure64_map_realloc(Map, e820, addr, size)
             IN  /\ Install(r)
                 /\ last' = Call("realloc", addr, size, r, Map)
    /\ ops' = ops + 1
    /\ UNCHANGED <<pc, e820>>

CallFree ==
    /\ pc = "run" /\ intact /\ ops < MaxOps
    /\ \E addr \in PtrArgs :
          /\ Install(Result(NULL, pure64_map_free(Map, addr), NoCopy, FALSE, <<>>, TRUE))
          /\ last' = Call("free", addr, 0,
                           [Fail(0) EXCEPT !.passes = free_sort_passes(Map, addr)],
                           Map)
    /\ ops' = ops + 1
    /\ UNCHANGED <<pc, e820>>

Next == pure64_map_init \/ CallMalloc \/ CallRealloc \/ CallFree

Spec == Init /\ [][Next]_vars

(***************************************************************************)
(* Vocabulary of the properties.                                           *)
(***************************************************************************)
Live == 1..alloc_count

Running == pc = "run" /\ intact

\* the live record i lies wholly within one usable entry of the map
Contained(i) ==
    \E e \in 1..Len(e820) :
        /\ e820[e].usable
        /\ table[i].reserved >= 0
        /\ e820[e].addr <= table[i].addr
        /\ table[i].addr + table[i].reserved <= e820[e].addr + e820[e].size

\* C1: the intervals [addr, addr + reserved) of two distinct live records
\* never share a byte.
C1_NonOverlap ==
    Running =>
        \A i, j \in Live :
            i # j => ~Intersects(table[i].addr, table[i].reserved,
                                 table[j].addr, table[j].reserved)

\* C2: no address handed out lies below 0x60000, and no live record but the
\* bootstrap record {addr = 0} reaches into [0, 0x60000).
C2_ReservedRegion ==
    Running =>
        /\ \A p \in issued : UGe(p, BootLimit)
        /\ \A i \in Live :
              table[i].addr # 0 =>
                  ~Intersects(table[i].addr, table[i].reserved, 0, BootLimit)

\* C3: every live record placed by the allocator (every record but the
\* bootstrap reservation of [0, 0x60000)) lies wholly within one usable
\* entry of the firmware map.
C3_Containment ==
    Running => \A i \in Live : table[i].addr # 0 => Contained(i)

\* C4: every live record has addr and reserved multiples of 4096, and so
\* has every address handed out.
C4_Alignment ==
    Running =>
        /\ \A i \in Live : /\ table[i].addr % BOUNDARY = 0
                           /\ table[i].reserved % BOUNDARY = 0
        /\ \A p \in issued : p % BOUNDARY = 0

\* C5: on an initialized map exactly one live record has the address held in
\* map->alloc_table, and it reserves at least N * sizeof(record) bytes.
C5_SelfHost ==
    (Running /\ alloc_table # NULL) =>
        /\ Cardinality({i \in Live : table[i].addr = alloc_table}) = 1
        /\ \A i \in Live :
              table[i].addr = alloc_table =>
                  UGe(table[i].reserved, alloc_count * SizeofAlloc)

\* C6: the live records are in strictly ascending order of address.
C6_Sorted ==
    Running =>
        \A i \in 1..(alloc_count - 1) : ULt(table[i].addr, table[i + 1].addr)

\* C7: every live record has size <= reserved (as 64-bit unsigned numbers).
C7_SizeLeReserved ==
    Running => \A i \in Live : ULe(table[i].size, table[i].reserved)

LiveRecords == SubSeq(table, 1, alloc_count)

\* C8: a malloc or realloc that returns null leaves N, the table pointer and
\* every live record as they were.
C8_FailureAtomic ==
    [][ (last'.op \in {"malloc", "realloc"} /\ last'.ret = NULL) =>
            /\ alloc_count' = alloc_count
            /\ alloc_table' = alloc_table
            /\ LiveRecords' = LiveRecords ]_vars

\* a malloc failed on an initialized map that holds client blocks
C8_Witness ==
    /\ Running /\ last.op = "malloc" /\ last.ret = NULL
    /\ last.size = 1280 /\ alloc_table # NULL /\ alloc_count > 2

\* the address is the base of no live record
Unknown(addr) == addr # NULL /\ \A i \in Live : table[i].addr # addr

\* C9: realloc of a non-null address that is the base of no live record
\* returns null, free of it returns, and both leave N and every live record
\* as they were.
C9_UnknownPointer ==
    [][ (last'.op \in {"realloc", "free"} /\ Unknown(last'.addr)) =>
            /\ last'.ret = NULL
            /\ alloc_count' = alloc_count
            /\ alloc_table' = alloc_table
            /\ LiveRecords' = LiveRecords ]_vars

\* a stale address was freed after an earlier free, with client blocks live
C9_Witness ==
    /\ Running /\ last.op = "free" /\ last.addr \in issued
    /\ ~last.found /\ alloc_count > 2 /\ Len(table) > alloc_count

(***************************************************************************)
(* Memory after pure64_memcpy(dst, src, n), cp = <<dst, src, n>>.  A byte  *)
(* is named by the address that held it before the call: MemAfter(cp, a)   *)
(* is <<TRUE, b>> when address a then holds the byte that was at b, and    *)
(* <<FALSE, a>> when the copy overlapped itself and the byte is undefined. *)
(***************************************************************************)
InCopy(cp, a) == ULt(a - cp[1], cp[3])

MemAfter(cp, a) ==
    IF InCopy(cp, a)
    THEN IF Intersects(cp[1], cp[3], cp[2], cp[3])
         THEN <<FALSE, a>>
         ELSE <<TRUE, (a - cp[1]) + cp[2]>>
    ELSE <<TRUE, a>>

\* MemAfter is piecewise a shift, with breaks at dst and dst + n: a property
\* of all the bytes of [a, a + n) is decided at its ends and at the breaks.
Probes(a, n, cp) ==
    {x \in {a, a + n - 1, cp[1], cp[1] + cp[3] - 1} : ULt(x - a, n)}

\* C10: a realloc of a live block that has to relocate it returns a new
\* address, with the block's first old_size bytes there, and changes no byte
\* of any other live block.
C10_GrowPreserves ==
    [][ \A k \in Live :
          ( /\ last'.op = "realloc" /\ last'.addr # NULL
            /\ k = find_alloc_entry(Map, last'.addr)
            /\ UGt(last'.size, table[k].reserved)
            /\ last'.ret # NULL ) =>
              /\ last'.ret # last'.addr
              /\ \A x \in Probes(last'.ret, table[k].size, last'.cp) :
                    MemAfter(last'.cp, x)
                        = <<TRUE, (x - last'.ret) + last'.addr>>
              /\ \A i \in Live \ {k} :
                    \A x \in Probes(table[i].addr, table[i].size, last'.cp) :
                        MemAfter(last'.cp, x) = <<TRUE, x>> ]_vars

\* C11: for every live record k with base p and every size <= its reserved,
\* realloc(p, size) returns p and changes the size field of record k and
\* nothing else: no other field, no other record, not N, not the table
\* pointer, and it copies no memory.
C11_InPlace ==
    [][ \A k \in Live :
          ( /\ last'.op = "realloc" /\ last'.addr # NULL
            /\ table[k].addr = last'.addr
            /\ ULe(last'.size, table[k].reserved) ) =>
              /\ last'.ret = last'.addr
              /\ table' = [table EXCEPT ![k].size = last'.size]
              /\ alloc_count' = alloc_count
              /\ alloc_table' = alloc_table
              /\ last'.cp = NoCopy ]_vars

\* C12: from every reachable state and for every size X, when p = malloc(X)
\* succeeds and free(p) and q = malloc(X) follow at once, q = p.
C12_ReuseFreedSlot ==
    Running =>
        \A X \in Sizes :
            LET r1 == pure64_map_malloc(Map, e820, X)
                m2 == pure64_map_free(r1.m, r1.ret)
                r3 == pure64_map_malloc(m2, e820, X)
            IN  (r1.ret # NULL /\ r1.ok) => r3.ret = r1.ret

\* the live records of m other than the record of the table itself
ClientRecords(m) ==
    {m.tab[i] : i \in {j \in 1..m.cnt : m.tab[j].addr # m.ptr}}

\* C13: from every reachable state with N live records, a successful
\* p = malloc(size) makes the count N + 1, free(p) at once after it makes it
\* N again, and the live records are then those before the malloc (the
\* table's own record aside).
C13_MallocFreeRestores ==
    Running =>
        \A X \in Sizes :
            LET r1 == pure64_map_malloc(Map, e820, X)
                m2 == pure64_map_free(r1.m, r1.ret)
            IN  (r1.ret # NULL /\ r1.ok) =>
                    /\ r1.m.cnt = alloc_count + 1
                    /\ m2.cnt = alloc_count
                    /\ ClientRecords(m2) = ClientRecords(Map)

\* the firmware map has an entry the scan of init accepts
Suitable == InitScan(e820, 1)[1] <= Len(e820)

\* the clipped start of the entry the scan of init chose
ClippedStart == InitScan(e820, 1)[2]

C15_ZeroSize ==
    [][ (last'.op = "malloc" /\ last'.size = 0 /\ last'.ret # NULL) =>
            /\ \E k \in 1..alloc_count' :
                   table'[k] = Rec(last'.ret, 0, BOUNDARY)
            /\ \A i \in Live :
                   table[i].addr # MAX_ADDR =>
                       ~ ( /\ ULe(table[i].addr, last'.ret)
                           /\ ULt(last'.ret, table[i].addr + table[i].reserved) )
            /\ (last.op = "malloc" /\ last.size = 0 /\ last.ret # NULL) =>
                   last'.ret # last.ret ]_vars

\* the page-multiple sizes a placement is asked for
PageSizes == {BOUNDARY, 2 * BOUNDARY}

\* [a, a + size) lies inside the usable entry e and meets no live record
FreeIn(e, a, size) ==
    /\ e820[e].usable
    /\ e820[e].addr <= a
    /\ a + size <= e820[e].addr + e820[e].size
    /\ \A i \in Live : ~Intersects(a, size, table[i].addr, table[i].reserved)

\* the lowest free address of an entry is its base or the end of a record
FitsIn(e, size) ==
    {a \in {e820[e].addr} \cup {table[i].addr + table[i].reserved : i \in Live} :
        FreeIn(e, a, size)}

Lowest(S) == CHOOSE x \in S : \A y \in S : x <= y

\* the lowest fitting address of the first entry, in map order, that has one
FirstFit(size) ==
    LET es == {e \in 1..Len(e820) : FitsIn(e, size) # {}}
    IN  IF es = {} THEN NULL ELSE Lowest(FitsIn(Lowest(es), size))

\* C16: in every reachable table state and for every page-multiple size,
\* find_suitable_addr returns the lowest address of the first usable entry,
\* in map order, at which [a, a + size) lies inside the entry and meets no
\* live record, and null exactly when no usable entry has such an address.
C16_FirstFit ==
    Running =>
        \A size \in PageSizes :
            find_suitable_addr(Map, e820, size) = FirstFit(size)

\* C17: when a call relocates a record (the memcpy <<p', p, size>> of
\* realloc), the whole reservation [p', p' + round_up(size, 4096)) lies
\* within one usable entry and meets the interval of no other live record.
C17_RelocationReserve ==
    [][ last'.moved =>
            LET dst == last'.cp[1]
                reserved == RoundUp(last'.cp[3])
                k == find_alloc_entry(Map, last'.cp[2])
            IN  /\ \E e \in 1..Len(e820) :
                       /\ e820[e].usable
                       /\ e820[e].addr <= dst
                       /\ dst + reserved <= e820[e].addr + e820[e].size
                /\ \A i \in Live \ {k} :
                       ~Intersects(dst, reserved, table[i].addr, table[i].reserved)
      ]_vars

\* C18: for every usable entry and page-multiple size, when the scan of the
\* allocation table has advanced the candidate past a record to an address
\* where [candidate, candidate + size) is free and candidate + size equals the
\* entry's end, the scan does not abandon the entry (leave the loop early).
C18_ExactFit ==
    Running =>
        \A e \in 1..Len(e820), size \in PageSizes :
            LET limit == e820[e].addr + e820[e].size
                r == ScanAllocs(table, alloc_count, 0, e820[e].addr, size, limit)
            IN  ( /\ e820[e].usable /\ UGe(e820[e].size, size)
                  /\ r[2] + size = limit
                  /\ FreeIn(e, r[2], size) ) =>
                    r[1] >= alloc_count

\* C19: the entry init chose ends strictly above 0x60000, and the initial
\* table [table_base, table_base + 2 * sizeof(record)) lies at or above
\* 0x60000 and entirely inside that entry.
C19_BootstrapPlacement ==
    (pc = "run" /\ Suitable) =>
        LET e == InitScan(e820, 1)[1]
        IN  /\ e820[e].usable
            /\ e820[e].addr + e820[e].size > BootLimit
            /\ ClippedStart >= BootLimit
            /\ e820[e].addr <= ClippedStart
            /\ ClippedStart + 2 * SizeofAlloc <= e820[e].addr + e820[e].size

\* C20: every call returns after a bounded number of steps: a malloc (init's
\* included) is one call of pure64_map_malloc and at most one call of
\* pure64_map_realloc, the growth of the table, which calls neither malloc
\* nor append again; realloc(p, size) with p non-null is one call of
\* pure64_map_realloc and none of pure64_map_malloc; realloc(NULL, size) adds
\* its own call to those of the malloc it makes; and sort_alloc_table stops
\* after at most as many passes as the table has records.
C20_BoundedRecursion ==
    /\ last.op \in {"malloc", "init"} =>
           last.mallocs = 1 /\ last.reallocs <= 1
    /\ (last.op = "realloc" /\ last.addr # NULL) =>
           last.mallocs = 0 /\ last.reallocs = 1
    /\ (last.op = "realloc" /\ last.addr = NULL) =>
           last.mallocs = 1 /\ last.reallocs <= 2
    /\ last.op = "free" =>
           last.mallocs = 0 /\ last.reallocs = 0
    /\ last.passes <= alloc_count + 1

\* a malloc has succeeded whose append relocated the table and sorted it
C20_Witness ==
    /\ last.op = "malloc" /\ last.ret # NULL
    /\ last.mallocs = 1 /\ last.reallocs = 1
    /\ last.moved /\ last.passes >= 1

====
